---------------------------- MODULE Spec2Model ----------------------------
(***************************************************************************)
(* A model of posh-to-dash.py: the crawl of the PowerShell documentation   *)
(* table of contents, the rewrite of the downloaded pages, the sqlite      *)
(* search index and the stage directories of main.                         *)
(*                                                                         *)
(* Strings of the program are TLA+ strings when the program only compares  *)
(* or copies them.  Where the program looks inside a string (lower(), the  *)
(* link pattern, lstrip) the string is a sequence of tokens.               *)
(* A file path is a sequence of segments <<stem, ext>>; a directory has    *)
(* the extension "", but for the directory the program names               *)
(* "%s.docset" % name, as it names the archive.                            *)
(***************************************************************************)
EXTENDS Integers, Sequences, FiniteSets, TLC

VARIABLES
  pc,          \* position of the program in the operation a specification runs
  toc,         \* modules_toc['items'][0]['children'], the modules read so far
  content_toc, \* the ContentTOC: an insertion-ordered dict, as <<key, value>> pairs
  fs,          \* the files on disk: a set of [path, data], one per path
  downloads,   \* the calls of download_textfile made so far, in order
  dsidx,       \* the file docSet.dsidx: NoFile, or its committed table
  item,        \* create_sqlite_database: the item of content_toc.items() it is at
  rows,        \* the searchIndex table of the open connection, in rowid order
  attempts,    \* the calls of insert_into_sqlite_db made so far, in order
  built,       \* the tables earlier calls of create_sqlite_database committed
  session,     \* PoshWebDriver.driver: [id, open] of the browser session it holds
  index_html,  \* get_url_page: its local index_html
  events,      \* get_url_page: what the current call has done so far, in order
  calls,       \* the calls of get_url_page made so far
  html_file,   \* rewrite_soup: the path of the page it was last called for
  soup_in,     \* rewrite_soup: the document it was last called with
  soup_out,    \* rewrite_soup: the document it returned
  resources,   \* rewrite_soup: the set of ThemeResourceRecord it returned
  stage,       \* main: the number of the stage it is in, 0 before the first
  run,         \* the number of the run of the program on the output folder
  resources_to_dl, \* main: the resources rewrite_html_contents returned
  made,        \* the files the run has downloaded or generated, from their stage root on
  docset_args  \* make_docset: [source_dir, dst_dir, filename] of the call

vars == <<pc, toc, content_toc, fs, downloads, dsidx, item, rows, attempts, built,
          session, index_html, events, calls,
          html_file, soup_in, soup_out, resources,
          stage, run, resources_to_dl, made, docset_args>>

crawlVars == <<toc, content_toc, fs, downloads>>
indexVars == <<dsidx, item, rows, attempts, built>>
renderVars == <<session, index_html, events, calls>>
soupVars == <<html_file, soup_in, soup_out, resources>>
mainVars == <<stage, run, resources_to_dl, made>>
packVars == <<docset_args>>

\* what the crawl and the index leave alone, and what get_url_page and
\* rewrite_soup leave alone
restOfBuild == <<renderVars, soupVars, mainVars, packVars>>
restOfRender == <<crawlVars, indexVars, soupVars, mainVars, packVars>>
restOfRewrite == <<crawlVars, indexVars, renderVars, mainVars, packVars>>

-----------------------------------------------------------------------------
(* Strings the program looks into: str.lower() on a TOC title              *)

UpperLetters == <<"A","B","C","D","E","F","G","H","I","J","K","L","M",
                  "N","O","P","Q","R","S","T","U","V","W","X","Y","Z">>
LowerLetters == <<"a","b","c","d","e","f","g","h","i","j","k","l","m",
                  "n","o","p","q","r","s","t","u","v","w","x","y","z">>

\* the characters of the titles and labels of the model
Chars(s) ==
  CASE s = "about"     -> <<"a","b","o","u","t">>
    [] s = "functions" -> <<"f","u","n","c","t","i","o","n","s">>
    [] s = "providers" -> <<"p","r","o","v","i","d","e","r","s">>
    [] s = "provider"  -> <<"p","r","o","v","i","d","e","r">>
    [] s = "About"     -> <<"A","b","o","u","t">>
    [] s = "about_If"  -> <<"a","b","o","u","t","_","I","f">>
    [] s = "Get-Item"  -> <<"G","e","t","-","I","t","e","m">>
    [] s = "Core"      -> <<"C","o","r","e">>
    [] s = "Utility"   -> <<"U","t","i","l","i","t","y">>

LowerChar(c) ==
  IF \E i \in 1..Len(UpperLetters) : UpperLetters[i] = c
  THEN LowerLetters[CHOOSE i \in 1..Len(UpperLetters) : UpperLetters[i] = c]
  ELSE c

\* str.lower()
lower(cs) == [i \in 1..Len(cs) |-> LowerChar(cs[i])]

-----------------------------------------------------------------------------
(* Paths: os.path.join, os.path.dirname, os.path.normpath, os.path.relpath  *)

Seg(stem, ext) == <<stem, ext>>
Dir(name) == Seg(name, "")
ParDir == Dir("..")
CurDir == Dir(".")
Root == Dir("/")

IsAbs(p) == p # <<>> /\ Head(p) = Root

\* os.path.join of two paths: an absolute second path replaces the first
PathJoin(a, b) == IF IsAbs(b) THEN b ELSE a \o b

Dirname(p) == SubSeq(p, 1, Len(p) - 1)

RECURSIVE NormFrom(_, _)
NormFrom(done, todo) ==
  IF todo = <<>> THEN done
  ELSE LET s == Head(todo) IN
       IF s = CurDir THEN NormFrom(done, Tail(todo))
       ELSE IF s = ParDir /\ done # <<>> /\ done[Len(done)] # ParDir
            THEN NormFrom(SubSeq(done, 1, Len(done) - 1), Tail(todo))
            ELSE NormFrom(Append(done, s), Tail(todo))

Normpath(p) == NormFrom(<<>>, p)

RECURSIVE CommonLen(_, _)
CommonLen(p, q) ==
  IF p # <<>> /\ q # <<>> /\ Head(p) = Head(q)
  THEN 1 + CommonLen(Tail(p), Tail(q))
  ELSE 0

\* a plausible slip: the file name alone is kept
RelpathBasename(path, start) == <<path[Len(path)]>>

\* os.path.relpath(path, start), both taken from the same working directory
Relpath(path, start) ==
  LET p == Normpath(path)
      s == Normpath(start)
      c == CommonLen(p, s)
      rel == [i \in 1..(Len(s) - c) |-> ParDir] \o SubSeq(p, c + 1, Len(p))
  IN IF rel = <<>> THEN <<CurDir>> ELSE rel

\* the file a path relative to a root names
Resolve(root, rel) == Normpath(PathJoin(root, rel))

IsUnder(p, root) ==
  Len(p) > Len(root) /\ SubSeq(p, 1, Len(root)) = root

-----------------------------------------------------------------------------
(* Configuration                                                            *)

domain == "docs.microsoft.com"
base_url == <<Dir(domain), Dir("en-us"), Dir("powershell"), Dir("module")>>
powershell_version == "6"
powershell_version_param == <<"view=powershell-", powershell_version>>
\* args.output, os.getcwd() by default: an absolute path
output_folder == <<Root, Dir("out")>>
build_folder == PathJoin(output_folder, <<Dir("_build_6")>>)

download_dir == PathJoin(build_folder, <<Dir("_1_downloaded_contents")>>)

-----------------------------------------------------------------------------
(* The file system and the Content Fetcher                                  *)

Paths(files) == {f.path : f \in files}

Exists(files, path) == path \in Paths(files)

\* open(path, 'w') and write: the file is created or replaced
WriteFile(files, path, data) ==
  {f \in files : f.path # path} \cup {[path |-> path, data |-> data]}

\* download_textfile: the directories are created, the body of the response
\* is written
download_textfile(files, url, output_filename) ==
  WriteFile(files, Normpath(output_filename), [from |-> url])

\* download_page_contents: the url of a TOC entry, with the version parameter
versionned_url(uri) == [join |-> uri, query |-> powershell_version_param]

-----------------------------------------------------------------------------
(* The Table-of-Contents Crawler                                            *)

MaxModules == 2
MaxEntries == 3

ModuleTitles == {"Core", "Utility"}
ChildTitles == {"About", "about_If", "Get-Item", "Core"}

ReservedLabels == {"about", "functions", "providers", "provider"}

TocEntry(title) == [toc_title |-> title, href |-> <<"href", title>>]

ChildLists(n) ==
  UNION {[1..k -> {TocEntry(t) : t \in ChildTitles}] : k \in 0..n}

\* a plausible slip: the title is compared as it is written
IsSpecialTocCaseSensitive(cmdlet_name) ==
  Chars(cmdlet_name) \in {Chars(l) : l \in ReservedLabels}

\* the test of line 180
IsSpecialToc(cmdlet_name) ==
  lower(Chars(cmdlet_name)) \in {Chars(l) : l \in ReservedLabels}

\* the loop over the cmdlets of download_module_contents, from entry k on;
\* st is [files, infos, log]
RECURSIVE DownloadCmdlets(_, _, _, _, _, _)
DownloadCmdlets(st, mi, module_dir, cmdlets, root_dir, k) ==
  IF k > Len(cmdlets) THEN st
  ELSE LET cmdlet_name == cmdlets[k].toc_title IN
       IF IsSpecialToc(cmdlet_name)
       THEN DownloadCmdlets(st, mi, module_dir, cmdlets, root_dir, k + 1)
       ELSE LET cmdlet_uri == cmdlets[k].href
                cmdlet_filepath == PathJoin(module_dir, <<Seg(cmdlet_name, ".html")>>)
                url == versionned_url(cmdlet_uri)
            IN DownloadCmdlets(
                 [files |-> download_textfile(st.files, url, cmdlet_filepath),
                  infos |-> Append(st.infos,
                              [name |-> cmdlet_name,
                               path |-> Relpath(cmdlet_filepath, root_dir)]),
                  log |-> Append(st.log,
                              [module |-> mi, child |-> k, url |-> url,
                               path |-> Normpath(cmdlet_filepath)])],
                 mi, module_dir, cmdlets, root_dir, k + 1)

\* mi is the position of the module in the TOC, kept for the log only
download_module_contents(files, mi, module_name, module_uri, module_dir, cmdlets, root_dir) ==
  LET module_filepath == PathJoin(module_dir, <<Seg(module_name, ".html")>>)
      url == versionned_url(module_uri)
      st == DownloadCmdlets(
              [files |-> download_textfile(files, url, module_filepath),
               infos |-> <<>>,
               log |-> <<[module |-> mi, child |-> 0, url |-> url,
                          path |-> Normpath(module_filepath)]>>],
              mi, module_dir, cmdlets, root_dir, 1)
  IN [files |-> st.files,
      log |-> st.log,
      module_infos |-> [name |-> module_name,
                        index |-> Relpath(module_filepath, root_dir),
                        cmdlets |-> st.infos]]

\* content_toc[key] = value on an insertion-ordered dict
DictSet(d, key, value) ==
  IF \E i \in 1..Len(d) : d[i][1] = key
  THEN [i \in 1..Len(d) |-> IF d[i][1] = key THEN <<key, value>> ELSE d[i]]
  ELSE Append(d, <<key, value>>)

DictKeys(d) == {d[i][1] : i \in 1..Len(d)}

EntriesRead(t) ==
  LET RECURSIVE Sum(_)
      Sum(i) == IF i = 0 THEN 0 ELSE Len(t[i].children) + Sum(i - 1)
  IN Sum(Len(t))

\* one iteration of the loop of crawl_posh_contents over the modules
CrawlModule ==
  /\ pc = "crawl"
  /\ Len(toc) < MaxModules
  /\ \E module_name \in ModuleTitles,
        module_cmdlets \in ChildLists(MaxEntries - EntriesRead(toc)) :
       LET mi == Len(toc) + 1
           module_uri == <<"href", module_name>>
           module_dir == PathJoin(PathJoin(download_dir, base_url), <<Dir(module_name)>>)
           r == download_module_contents(fs, mi, module_name, module_uri,
                                         module_dir, module_cmdlets, download_dir)
       IN /\ toc' = Append(toc, [toc_title |-> module_name, href |-> module_uri,
                                 children |-> module_cmdlets])
          /\ fs' = r.files
          /\ downloads' = downloads \o r.log
          /\ content_toc' = DictSet(content_toc, module_name, r.module_infos)
  /\ UNCHANGED <<pc, indexVars, restOfBuild>>

\* the loop is over: crawl_posh_contents returns content_toc
CrawlReturn ==
  /\ pc = "crawl"
  /\ pc' = "crawled"
  /\ UNCHANGED <<crawlVars, indexVars, restOfBuild>>

-----------------------------------------------------------------------------
(* The Search Indexer: create_sqlite_database                              *)

MaxBuilds == 2

NoFile == "no file"

Row(name, record_type, path) == [name |-> name, type |-> record_type, path |-> path]

\* a call of insert_into_sqlite_db; origin is <<item, cmdlet>>, the place of
\* content_toc it is made for (cmdlet 0: the module itself)
Attempt(name, record_type, path, origin) ==
  [name |-> name, type |-> record_type, path |-> path, origin |-> origin]

\* SELECT rowid FROM searchIndex WHERE path = ? ; fetchone()
SelectByPath(table, path) == {i \in 1..Len(table) : table[i].path = path}

\* SELECT rowid FROM searchIndex WHERE name = ? ; fetchone()
SelectByName(table, name) == {i \in 1..Len(table) : table[i].name = name}

\* INSERT OR IGNORE under the unique index anchor(name, type, path)
InsertOrIgnore(table, row) ==
  IF \E i \in 1..Len(table) : table[i] = row THEN table ELSE Append(table, row)

\* a plausible slip: only the path is looked up before the insert
insert_path_only(table, name, record_type, path, raises) ==
  IF raises THEN table
  ELSE IF SelectByPath(table, path) = {}
       THEN InsertOrIgnore(table, Row(name, record_type, path))
       ELSE table

\* raises: a statement of the try block raised; the except clause passes
insert_into_sqlite_db(table, name, record_type, path, raises) ==
  IF raises THEN table
  ELSE IF SelectByPath(table, path) = {} /\ SelectByName(table, name) = {}
       THEN InsertOrIgnore(table, Row(name, record_type, path))
       ELSE table

\* a plausible slip: the test of line 478 left out
SkipsCmdletNever(cmdlet_name, module_name) == FALSE

\* the test of line 478
SkipsCmdlet(cmdlet_name, module_name) == cmdlet_name = module_name

\* the loop over module['cmdlets'] of create_sqlite_database, from cmdlet k on;
\* st is [table, log].  The statements of the try block do not raise here:
\* the index is a private file of the run.
RECURSIVE InsertCmdlets(_, _, _, _, _)
InsertCmdlets(st, i, module_name, cmdlets, k) ==
  IF k > Len(cmdlets) THEN st
  ELSE LET cmdlet_name == cmdlets[k].name IN
       IF SkipsCmdlet(cmdlet_name, module_name)
       THEN InsertCmdlets(st, i, module_name, cmdlets, k + 1)
       ELSE InsertCmdlets(
              [table |-> insert_into_sqlite_db(st.table, cmdlet_name, "Cmdlet",
                                               cmdlets[k].path, FALSE),
               log |-> Append(st.log, Attempt(cmdlet_name, "Cmdlet",
                                              cmdlets[k].path, <<i, k>>))],
              i, module_name, cmdlets, k + 1)

\* the body of the loop over content_toc.items(), for item i
InsertModule(table, i, module_name, module) ==
  InsertCmdlets(
    [table |-> insert_into_sqlite_db(table, module_name, "Module", module.index, FALSE),
     log |-> <<Attempt(module_name, "Module", module.index, <<i, 0>>)>>],
    i, module_name, module.cmdlets, 1)

\* lines 461-468: a docSet.dsidx left by an earlier build is removed, the new
\* file is connected to and the table and its index are created
\* a plausible slip: a docSet.dsidx that is there is opened as it is
IndexOpenKeepsFile ==
  /\ pc = "crawled"
  /\ pc' = "index"
  /\ dsidx' = dsidx
  /\ rows' = dsidx
  /\ item' = 1
  /\ attempts' = <<>>
  /\ UNCHANGED <<built, crawlVars, restOfBuild>>

IndexOpen ==
  /\ pc = "crawled"
  /\ pc' = "index"
  /\ dsidx' = <<>>
  /\ rows' = <<>>
  /\ item' = 1
  /\ attempts' = <<>>
  /\ UNCHANGED <<built, crawlVars, restOfBuild>>

IndexModule ==
  /\ pc = "index"
  /\ item <= Len(content_toc)
  /\ LET st == InsertModule(rows, item, content_toc[item][1], content_toc[item][2])
     IN /\ rows' = st.table
        /\ attempts' = attempts \o st.log
  /\ item' = item + 1
  /\ UNCHANGED <<pc, dsidx, built, crawlVars, restOfBuild>>

\* db.commit() and db.close()
IndexCommit ==
  /\ pc = "index"
  /\ item > Len(content_toc)
  /\ dsidx' = rows
  /\ pc' = "indexed"
  /\ UNCHANGED <<item, rows, attempts, built, crawlVars, restOfBuild>>

\* create_sqlite_database is called again with the same content_toc: the
\* docSet.dsidx the call before committed is on disk
IndexAgain ==
  /\ pc = "indexed"
  /\ Len(built) + 1 < MaxBuilds
  /\ built' = Append(built, dsidx)
  /\ pc' = "crawled"
  /\ UNCHANGED <<dsidx, item, rows, attempts, crawlVars, restOfBuild>>

-----------------------------------------------------------------------------
(* The page-rendering capability: PoshWebDriver.get_url_page                *)

MaxCalls == 3

\* a Python value that is None or a str
None == [some |-> FALSE, text |-> ""]
Str(text) == [some |-> TRUE, text |-> text]

\* not v, for v None or a str: None and the empty string are false
Not(v) == ~v.some \/ v.text = ""

\* what driver.page_source can give: the markup of the page, which is empty
\* when the browser holds no document
PageSources == {"", "<html>start page</html>"}

\* the exceptions of the except clause of line 45, and one it does not name
TransientErrors == {"ConnectionResetError", "URLError"}
OtherErrors == {"WebDriverException"}

\* the outcomes of a statement: it gave a page, it raised, it went through
GavePage(page) == [kind |-> "page", value |-> page]
Raised(e) == [kind |-> "raised", value |-> e]
Passed == [kind |-> "passed", value |-> ""]

Event(op, result) == [op |-> op, session |-> session.id, result |-> result]

\* get_url_page is called (line 428); line 41
RenderCall ==
  /\ pc \in {"render", "returned"}
  /\ calls < MaxCalls
  /\ calls' = calls + 1
  /\ events' = <<>>
  /\ index_html' = None
  /\ pc' = "get1"
  /\ UNCHANGED <<session, restOfRender>>

\* lines 43-44 give the page
RenderFirstLoads ==
  /\ pc = "get1"
  /\ \E page \in PageSources :
       /\ index_html' = Str(page)
       /\ events' = Append(events, Event("get", GavePage(page)))
  /\ pc' = "check"
  /\ UNCHANGED <<session, calls, restOfRender>>

\* lines 43-44 raise an exception the except clause names
RenderFirstTransient ==
  /\ pc = "get1"
  /\ \E e \in TransientErrors : events' = Append(events, Event("get", Raised(e)))
  /\ pc' = "quit"
  /\ UNCHANGED <<session, index_html, calls, restOfRender>>

\* lines 43-44 raise another exception: it leaves get_url_page
RenderFirstRaises ==
  /\ pc = "get1"
  /\ \E e \in OtherErrors : events' = Append(events, Event("get", Raised(e)))
  /\ pc' = "raised"
  /\ UNCHANGED <<session, index_html, calls, restOfRender>>

\* line 49
RenderQuit ==
  /\ pc = "quit"
  /\ events' = Append(events, Event("quit", Passed))
  /\ session' = [session EXCEPT !.open = FALSE]
  /\ pc' = "sleep"
  /\ UNCHANGED <<index_html, calls, restOfRender>>

\* line 50
RenderSleep ==
  /\ pc = "sleep"
  /\ events' = Append(events, Event("sleep", Passed))
  /\ pc' = "new"
  /\ UNCHANGED <<session, index_html, calls, restOfRender>>

\* lines 52-57: a new browser is started
RenderNewSession ==
  /\ pc = "new"
  /\ session' = [id |-> session.id + 1, open |-> TRUE]
  /\ events' = Append(events, [op |-> "new", session |-> session.id + 1, result |-> Passed])
  /\ index_html' = None
  /\ pc' = "check"
  /\ UNCHANGED <<calls, restOfRender>>

\* lines 52-55: the new browser does not start, the exception leaves the handler
RenderNewSessionRaises ==
  /\ pc = "new"
  /\ \E e \in OtherErrors : events' = Append(events, Event("new", Raised(e)))
  /\ pc' = "raised"
  /\ UNCHANGED <<session, index_html, calls, restOfRender>>

\* line 60, and line 64 when the test fails
RenderCheck ==
  /\ pc = "check"
  /\ pc' = IF Not(index_html) THEN "get2" ELSE "returned"
  /\ UNCHANGED <<renderVars, restOfRender>>

\* lines 61-64
RenderSecondLoads ==
  /\ pc = "get2"
  /\ \E page \in PageSources :
       /\ index_html' = Str(page)
       /\ events' = Append(events, Event("get", GavePage(page)))
  /\ pc' = "returned"
  /\ UNCHANGED <<session, calls, restOfRender>>

\* lines 61-62 raise: nothing catches it
RenderSecondRaises ==
  /\ pc = "get2"
  /\ \E e \in TransientErrors \cup OtherErrors :
       events' = Append(events, Event("get", Raised(e)))
  /\ pc' = "raised"
  /\ UNCHANGED <<session, index_html, calls, restOfRender>>

-----------------------------------------------------------------------------
(* The Markup Rewriter: rewrite_soup                                        *)
(*                                                                         *)
(* The href or the text of an anchor is the sequence of its tokens: its    *)
(* runs of word characters (what \w+ matches) and, one by one, its other   *)
(* characters.  The href of a stylesheet link is the sequence of its path  *)
(* segments, its slashes and its blanks.                                   *)

MaxAnchors == 2
MaxSheets == 1

html_rewrite_dir == PathJoin(build_folder, <<Dir("_2_html_rewrite")>>)

Punctuation == {"-", "?", "=", ".", "/", "#", ":", " "}

\* \w+ matches the token
IsWord(tok) == tok \notin Punctuation

VersionTokens == <<powershell_version>>

\* "./?view=powershell-%s" % configuration.powershell_version
ModuleRootHref == <<".", "/", "?", "view", "=", "powershell", "-">> \o VersionTokens

\* \?view=powershell-
ViewQuery == <<"?", "view", "=", "powershell", "-">>

\* a plausible slip: the pattern (\w+)\?view=powershell-
link_pattern_one_word(href) ==
  LET RECURSIVE From(_)
      From(i) ==
        IF i > Len(href) THEN <<>>
        ELSE IF /\ i + 5 <= Len(href)
                /\ IsWord(href[i])
                /\ SubSeq(href, i + 1, i + 5) = ViewQuery
             THEN <<SubSeq(href, i, i)>> \o From(i + 6)
             ELSE From(i + 1)
  IN From(1)

\* link_pattern.findall(href), for the pattern (\w+-\w+)\?view=powershell- :
\* the groups of its matches, leftmost first
link_pattern_findall(href) ==
  LET RECURSIVE From(_)
      From(i) ==
        IF i > Len(href) THEN <<>>
        ELSE IF /\ i + 7 <= Len(href)
                /\ IsWord(href[i]) /\ href[i + 1] = "-" /\ IsWord(href[i + 2])
                /\ SubSeq(href, i + 3, i + 7) = ViewQuery
             THEN <<SubSeq(href, i, i + 2)>> \o From(i + 8)
             ELSE From(i + 1)
  IN From(1)

\* the body of the loop of lines 233-253
FixLink(link) ==
  LET href == link.href IN
  IF href = ModuleRootHref
  THEN [link EXCEPT !.href = <<".", "/">> \o link.text \o <<".", "html">>]
  ELSE LET targets == link_pattern_findall(href) IN
       IF Len(targets) = 0 THEN link
       ELSE LET fixed_href == targets[1] \o <<".", "html">> IN
            IF fixed_href # href THEN [link EXCEPT !.href = fixed_href] ELSE link

\* soup.findAll("a", {"data-linktype": "relative-path"}) and the loop over it
FixLinks(anchors) ==
  [i \in 1..Len(anchors) |->
     IF anchors[i].linktype = "relative-path" THEN FixLink(anchors[i]) ELSE anchors[i]]

\* the elements of nav_elements (lines 256-266) the pages of the model hold
nav_elements == {[tag |-> "div", class |-> "sidebar", role |-> "navigation"],
                 [tag |-> "div", class |-> "pageActions", role |-> ""]}

\* str.strip(): the blanks at both ends are dropped
RECURSIVE LStripBlanks(_)
LStripBlanks(ts) ==
  IF ts # <<>> /\ Head(ts) = " " THEN LStripBlanks(Tail(ts)) ELSE ts

RECURSIVE RStripBlanks(_)
RStripBlanks(ts) ==
  IF ts # <<>> /\ ts[Len(ts)] = " " THEN RStripBlanks(SubSeq(ts, 1, Len(ts) - 1)) ELSE ts

strip(ts) == RStripBlanks(LStripBlanks(ts))

\* str.lstrip('/'): every leading slash is dropped
RECURSIVE lstrip_slash(_)
lstrip_slash(ts) ==
  IF ts # <<>> /\ Head(ts) = "/" THEN lstrip_slash(Tail(ts)) ELSE ts

startswith(ts, prefix) ==
  Len(ts) >= Len(prefix) /\ SubSeq(ts, 1, Len(prefix)) = prefix

\* Configuration.default_theme_uri
default_theme_uri ==
  <<"_themes", "/", "docs.theme", "/", "master", "/", "en-us", "/", "_themes">>

\* the path a string with slashes names
RECURSIVE ToPath(_)
ToPath(ts) ==
  IF ts = <<>> THEN <<>>
  ELSE IF Head(ts) = "/" THEN ToPath(Tail(ts))
       ELSE <<Dir(Head(ts))>> \o ToPath(Tail(ts))

\* '/'.join(path.split(os.sep))
RECURSIVE ToUri(_)
ToUri(path) ==
  IF path = <<>> THEN <<>>
  ELSE IF Len(path) = 1 THEN <<path[1][1]>>
       ELSE <<path[1][1], "/">> \o ToUri(Tail(path))

\* line 291: "https://%s/%s" % (Configuration.domain, uri_path)
css_url_of(uri_path) == <<"https:", "/", "/", domain, "/">> \o uri_path

IsThemeSheet(link) ==
  startswith(lstrip_slash(strip(link.href)), default_theme_uri)

\* the body of the loop of lines 284-302 for a link of the theme: the link
\* with its new href, and the ThemeResourceRecord
ExtractSheet(link, html_path, documents_dir) ==
  LET uri_path == strip(link.href)
      theme_output_dir == PathJoin(documents_dir, <<Dir(domain)>>)
      css_filepath == PathJoin(theme_output_dir, ToPath(lstrip_slash(uri_path)))
      path == Relpath(css_filepath, Dirname(html_path))
  IN [link |-> [link EXCEPT !.href = ToUri(path)],
      record |-> [url |-> css_url_of(uri_path),
                  path |-> Relpath(css_filepath, documents_dir)]]

\* rewrite_soup: the document it returns and the set of its resources
rewrite_soup(soup, html_path, documents_dir) ==
  LET sheets == soup.sheets
      theme == {i \in 1..Len(sheets) : IsThemeSheet(sheets[i])}
  IN [soup |->
        [anchors |-> FixLinks(soup.anchors),
         body |-> soup.body \ nav_elements,
         head_scripts |-> 0,
         sheets |-> [i \in 1..Len(sheets) |->
                       IF i \in theme
                       THEN ExtractSheet(sheets[i], html_path, documents_dir).link
                       ELSE sheets[i]]],
      resources |->
        {ExtractSheet(sheets[i], html_path, documents_dir).record : i \in theme}]

\* the documents rewrite_soup is called with
Anchor(linktype, href, text) == [linktype |-> linktype, href |-> href, text |-> text]

AnchorTargets ==
  {<<ModuleRootHref, <<"Get", "-", "Help">>>>,
   <<ModuleRootHref, <<"Core">>>>,
   <<<<"Get", "-", "Process", "?", "view", "=", "powershell", "-", "6">>,
     <<"Get", "-", "Process">>>>,
   <<<<".", "/", "?", "view", "=", "powershell", "-", "5", ".", "1">>, <<"Core">>>>,
   <<<<"about_If", "?", "view", "=", "powershell", "-", "6">>, <<"about_If">>>>,
   <<<<".", ".", "/", "Core", "/", "New", "-", "Item", "-", "Property",
       "?", "view", "=", "powershell", "-", "6">>, <<"New", "-", "Item", "-", "Property">>>>,
   <<<<"https", ":", "/", "/", "docs", ".", "microsoft", ".", "com", "/", "Get", "-", "Help">>,
     <<"Get", "-", "Help">>>>}

\* every target in an anchor flagged relative-path, and two of them, which
\* the rules would change, in an anchor flagged external
Anchors ==
  {Anchor("relative-path", t[1], t[2]) : t \in AnchorTargets}
    \cup {Anchor("external", ModuleRootHref, <<"Get", "-", "Help">>),
          Anchor("external", <<"Get", "-", "Process", "?", "view", "=", "powershell", "-", "6">>,
                 <<"Get", "-", "Process">>)}

MainCss ==
  <<"/", "_themes", "/", "docs.theme", "/", "master", "/", "en-us", "/", "_themes",
    "/", "styles", "/", "main.css">>

SheetHrefs ==
  {MainCss,
   <<" ">> \o MainCss \o <<" ">>,
   <<"_themes", "/", "docs.theme", "/", "master", "/", "en-us", "/", "_themes",
     "/", "styles", "/", "print.css">>,
   <<"https:", "/", "/", "cdn.example.com", "/", "site.css">>}

SeqsUpTo(S, n) == UNION {[1..k -> S] : k \in 0..n}

SitePage == {[tag |-> "div", class |-> "sidebar", role |-> "navigation"],
             [tag |-> "div", class |-> "pageActions", role |-> ""],
             [tag |-> "div", class |-> "content", role |-> "main"]}

Soups ==
  {[anchors |-> a, sheets |-> sh, body |-> b[1], head_scripts |-> b[2]] :
     a \in SeqsUpTo(Anchors, MaxAnchors),
     sh \in SeqsUpTo({[href |-> h] : h \in SheetHrefs}, MaxSheets),
     b \in {<<{}, 0>>, <<SitePage, 2>>}}

NoSoup == [anchors |-> <<>>, sheets |-> <<>>, body |-> {}, head_scripts |-> 0]

HtmlFiles ==
  {html_rewrite_dir \o base_url \o <<Dir("Core"), Seg("Get-Item", ".html")>>}

\* one call of rewrite_soup (line 403), on a page of the rewrite directory
RewriteSoup ==
  /\ pc = "rewrite"
  /\ \E soup \in Soups, html_path \in HtmlFiles :
       LET r == rewrite_soup(soup, html_path, html_rewrite_dir) IN
       /\ soup_in' = soup
       /\ html_file' = html_path
       /\ soup_out' = r.soup
       /\ resources' = r.resources
  /\ pc' = "rewritten"
  /\ UNCHANGED restOfRewrite

-----------------------------------------------------------------------------
(* main: the five stages over the stage directories of the build folder     *)
(*                                                                         *)
(* The build folder and the output folder are kept from one run of main to  *)
(* the next: nothing in the program removes them.                           *)

MaxRuns == 2

additional_resources_dir == PathJoin(build_folder, <<Dir("_3_additional_resources")>>)
package_dir == PathJoin(build_folder, <<Dir("_4_ready_to_be_packaged")>>)
docset_dir == PathJoin(package_dir, <<Seg("Powershell", ".docset")>>)
content_dir == PathJoin(docset_dir, <<Dir("Contents")>>)
resources_dir == PathJoin(content_dir, <<Dir("Resources")>>)
document_dir == PathJoin(resources_dir, <<Dir("Documents")>>)
version_output_dir ==
  PathJoin(output_folder, <<Dir("versions"), Dir(powershell_version)>>)

\* the files below a directory
Under(files, dir) == {f \in files : IsUnder(f.path, dir)}

\* a path below a directory, from that directory on
Rel(path, dir) == SubSeq(path, Len(dir) + 1, Len(path))

\* shutil.rmtree(dst_folder); a directory that is not there is let pass by
\* onerror
rmtree(files, dst_folder) == files \ Under(files, dst_folder)

\* shutil.copytree of the files part of the source tree
copytree(files, part, src_folder, dst_folder) ==
  files \cup {[path |-> dst_folder \o Rel(f.path, src_folder), data |-> f.data] : f \in part}

\* a plausible slip: the tree is moved (shutil.move), not copied
copy_folder_move(files, src_folder, dst_folder) ==
  rmtree(copytree(rmtree(files, dst_folder), Under(files, src_folder),
                  src_folder, dst_folder),
         src_folder)

copy_folder(files, src_folder, dst_folder) ==
  copytree(rmtree(files, dst_folder), Under(files, src_folder), src_folder, dst_folder)

\* crawl_posh_contents over the modules of a TOC, from module i on; st is
\* [files, content_toc, log]
RECURSIVE CrawlFrom(_, _, _)
CrawlFrom(st, modules, i) ==
  IF i > Len(modules) THEN st
  ELSE LET module == modules[i]
           module_name == module.toc_title
           module_dir == PathJoin(PathJoin(download_dir, base_url), <<Dir(module_name)>>)
           r == download_module_contents(st.files, i, module_name, module.href,
                                         module_dir, module.children, download_dir)
       IN CrawlFrom([files |-> r.files,
                     content_toc |-> DictSet(st.content_toc, module_name, r.module_infos),
                     log |-> st.log \o r.log],
                    modules, i + 1)

crawl_posh_contents(files, modules) ==
  CrawlFrom([files |-> files, content_toc |-> <<>>, log |-> <<>>], modules, 1)

\* the TOCs the site serves to a run
TocModule(title, children) ==
  [toc_title |-> title, href |-> <<"href", title>>,
   children |-> [i \in 1..Len(children) |-> TocEntry(children[i])]]

MainTocs ==
  {<<TocModule("Core", <<"Get-Item">>)>>,
   <<TocModule("Utility", <<"About">>)>>,
   <<TocModule("Core", <<"Get-Item">>), TocModule("Utility", <<"About">>)>>}

\* the head of the pages the site serves to a run: no stylesheet of the
\* theme, or main.css
MainSoups == {NoSoup, [NoSoup EXCEPT !.sheets = <<[href |-> MainCss]>>]}

IsHtml(f) == f.path[Len(f.path)][2] = ".html"

\* soup.prettify() of the rewritten page, written over the page
Fixed(data) == [fixed |-> data]

\* the loop of create_sqlite_database over content_toc.items(), from item i on
RECURSIVE InsertItems(_, _, _)
InsertItems(table, ct, i) ==
  IF i > Len(ct) THEN table
  ELSE InsertItems(InsertModule(table, i, ct[i][1], ct[i][2]).table, ct, i + 1)

sqlite_filepath == PathJoin(resources_dir, <<Seg("docSet", ".dsidx")>>)

docs_index_url == [join |-> base_url, query |-> powershell_version_param]
index_filepath(documents_dir) ==
  PathJoin(documents_dir, <<Dir(domain), Dir("en-us"), Seg("index", ".html")>>)
icon_module_url == <<"https:/", domain, "en-us", "media", "toolbars", "module.svg">>
icon_module_path(documents_dir) ==
  PathJoin(documents_dir,
           <<Dir(domain), Dir("en-us"), Dir("media"), Dir("toolbars"), Seg("module", ".svg")>>)

\* the orders a loop over a set may take
Orders(S) ==
  {s \in [1..Cardinality(S) -> S] : \A x \in S : \E i \in 1..Cardinality(S) : s[i] = x}

\* the files download_additional_resources writes, in the order it writes
\* them: the resources, the stylesheets of the start page (downloaded by
\* rewrite_index_soup), the start page, the module icon
EnrichWrites(order, index_soup, documents_dir) ==
  LET theme == SelectSeq(index_soup.sheets, IsThemeSheet)
      rec(link) == ExtractSheet(link, index_filepath(documents_dir), documents_dir).record
  IN [i \in 1..Len(order) |->
        [path |-> PathJoin(documents_dir, order[i].path), data |-> [from |-> order[i].url]]]
     \o [i \in 1..Len(theme) |->
           [path |-> PathJoin(documents_dir, rec(theme[i]).path),
            data |-> [from |-> rec(theme[i]).url]]]
     \o <<[path |-> index_filepath(documents_dir), data |-> Fixed([from |-> docs_index_url])],
          [path |-> icon_module_path(documents_dir), data |-> [from |-> icon_module_url]]>>

\* the static files of stage 5, in the order they are copied
StaticWrites ==
  <<[path |-> PathJoin(content_dir, <<Seg("Info", ".plist")>>),
     data |-> [from |-> "static/Info.plist"]],
    [path |-> PathJoin(resources_dir, <<Seg("LICENSE", "")>>),
     data |-> [from |-> "static/DASH_LICENSE"]],
    [path |-> PathJoin(docset_dir, <<Seg("icon", ".png")>>),
     data |-> [from |-> "static/icon.png"]],
    [path |-> PathJoin(docset_dir, <<Seg("icon@2x", ".png")>>),
     data |-> [from |-> "static/icon@2x.png"]]>>

\* the first n writes of a sequence of writes
RECURSIVE WriteFirst(_, _, _)
WriteFirst(files, writes, n) ==
  IF n = 0 THEN files
  ELSE LET w == writes[n]
       IN WriteFile(WriteFirst(files, writes, n - 1), Normpath(w.path), w.data)

\* os.path.isdir, of a directory that holds a file
IsDir(files, path) == \E f \in files : IsUnder(f.path, path)

Basename(path) == path[Len(path)]

\* the value of a call that may raise: the files it leaves, and whether it
\* raised
Left(files, raised) == [files |-> files, raised |-> raised]

\* lines 149-150: tarfile.open(tar_filepath, "w:gz") and tar.add(source_dir,
\* arcname = os.path.basename(source_dir))
tar_add(files, tar_filepath, source_dir) ==
  IF IsDir(files, tar_filepath) \/ ~IsDir(files, source_dir)
  THEN Left(files, TRUE)
  ELSE Left(WriteFile(files, tar_filepath,
                      [members |->
                         {[path |-> <<Basename(source_dir)>> \o Rel(f.path, source_dir),
                           data |-> f.data] : f \in Under(files, source_dir)}]),
            FALSE)

\* shutil.move(src, dst) of a file: into dst when dst is a directory, where
\* a file or directory of that name makes it raise; over dst otherwise
shutil_move(files, src, dst) ==
  LET real_dst == IF IsDir(files, dst) THEN Append(dst, Basename(src)) ELSE dst IN
  IF ~Exists(files, src)
       \/ (IsDir(files, dst) /\ (Exists(files, real_dst) \/ IsDir(files, real_dst)))
  THEN Left(files, TRUE)
  ELSE Left({f \in files : f.path \notin {src, real_dst}}
              \cup {[path |-> real_dst, data |-> f.data] : f \in {g \in files : g.path = src}},
            FALSE)

tar_filepath_of(dst_dir, filename) == PathJoin(dst_dir, <<Seg(filename, ".tar")>>)
targz_filepath_of(dst_dir, filename) == PathJoin(dst_dir, <<Seg(filename, ".tar.gz")>>)
docset_filepath_of(dst_dir, filename) == PathJoin(dst_dir, <<Seg(filename, ".docset")>>)

\* make_docset: the files it leaves; a statement that raises ends it
make_docset(files, source_dir, dst_dir, filename) ==
  LET tar_filepath == tar_filepath_of(dst_dir, filename)
      targz_filepath == targz_filepath_of(dst_dir, filename)
      docset_filepath == docset_filepath_of(dst_dir, filename)
      tar == tar_add(files, tar_filepath, source_dir)
      targz == shutil_move(tar.files, tar_filepath, targz_filepath)
      docset == shutil_move(targz.files, targz_filepath, docset_filepath)
  IN IF tar.raised THEN tar.files
     ELSE IF targz.raised THEN targz.files
          ELSE docset.files

NoArgs == [source_dir |-> <<>>, dst_dir |-> <<>>, filename |-> ""]

\* the three statements of make_docset, one by one
PackageTar ==
  /\ pc = "tar"
  /\ LET r == tar_add(fs, tar_filepath_of(docset_args.dst_dir, docset_args.filename),
                      docset_args.source_dir) IN
     /\ fs' = r.files
     /\ pc' = IF r.raised THEN "raised" ELSE "tar written"
  /\ UNCHANGED <<toc, content_toc, downloads, indexVars, renderVars, soupVars, packVars,
                 mainVars>>

PackageMoveTar ==
  /\ pc = "tar written"
  /\ LET r == shutil_move(fs, tar_filepath_of(docset_args.dst_dir, docset_args.filename),
                          targz_filepath_of(docset_args.dst_dir, docset_args.filename)) IN
     /\ fs' = r.files
     /\ pc' = IF r.raised THEN "raised" ELSE "tar moved"
  /\ UNCHANGED <<toc, content_toc, downloads, indexVars, renderVars, soupVars, packVars,
                 mainVars>>

PackageMoveTarGz ==
  /\ pc = "tar moved"
  /\ LET r == shutil_move(fs, targz_filepath_of(docset_args.dst_dir, docset_args.filename),
                          docset_filepath_of(docset_args.dst_dir, docset_args.filename)) IN
     /\ fs' = r.files
     /\ pc' = IF r.raised THEN "raised" ELSE "returned"
  /\ UNCHANGED <<toc, content_toc, downloads, indexVars, renderVars, soupVars, packVars,
                 mainVars>>

\* stage 1: crawl_posh_contents returns
MainCrawl ==
  /\ pc = "main"
  /\ \E modules \in MainTocs :
       LET r == crawl_posh_contents(fs, modules) IN
       /\ toc' = modules
       /\ fs' = r.files
       /\ content_toc' = r.content_toc
       /\ made' = {Rel(r.log[i].path, download_dir) : i \in 1..Len(r.log)}
  /\ stage' = 1
  /\ pc' = "ready"
  /\ UNCHANGED <<run, resources_to_dl, downloads, indexVars, renderVars, soupVars, packVars>>

\* stage 1: a download raises after n modules, main ends
MainCrawlAborts ==
  /\ pc = "main"
  /\ \E modules \in MainTocs, n \in 0..MaxModules :
       /\ n < Len(modules)
       /\ LET r == crawl_posh_contents(fs, SubSeq(modules, 1, n)) IN
          /\ toc' = SubSeq(modules, 1, n)
          /\ fs' = r.files
          /\ made' = {Rel(r.log[i].path, download_dir) : i \in 1..Len(r.log)}
  /\ stage' = 1
  /\ pc' = "aborted"
  /\ UNCHANGED <<run, content_toc, resources_to_dl, downloads, indexVars, renderVars,
                 soupVars, packVars>>

\* the copy_folder a stage starts with: from, to
CopySource(k) ==
  CASE k = 2 -> download_dir
    [] k = 3 -> html_rewrite_dir
    [] k = 4 -> additional_resources_dir

CopyTarget(k) ==
  CASE k = 2 -> html_rewrite_dir
    [] k = 3 -> additional_resources_dir
    [] k = 4 -> document_dir

\* stages 2, 3 and 4 start: copy_folder returns
MainCopy ==
  /\ pc = "ready"
  /\ stage \in 1..3
  /\ stage' = stage + 1
  /\ fs' = copy_folder(fs, CopySource(stage + 1), CopyTarget(stage + 1))
  /\ pc' = "copied"
  /\ UNCHANGED <<run, toc, content_toc, resources_to_dl, made, downloads, indexVars,
                 renderVars, soupVars, packVars>>

\* copytree raises, main ends: the files it could not copy, one of the tree
\* or all of them, are missing from the copy
MainCopyAborts ==
  /\ pc = "ready"
  /\ stage \in 1..3
  /\ stage' = stage + 1
  /\ LET tree == Under(fs, CopySource(stage + 1)) IN
     \E lost \in {tree} \cup {{f} : f \in tree} :
       fs' = copytree(rmtree(fs, CopyTarget(stage + 1)), tree \ lost,
                      CopySource(stage + 1), CopyTarget(stage + 1))
  /\ pc' = "aborted"
  /\ UNCHANGED <<run, toc, content_toc, resources_to_dl, made, downloads, indexVars,
                 renderVars, soupVars, packVars>>

\* stage 2: rewrite_html_contents returns the resources of all the pages
MainRewrite ==
  /\ pc = "copied"
  /\ stage = 2
  /\ \E soup \in MainSoups :
       LET pages == {f \in Under(fs, html_rewrite_dir) : IsHtml(f)} IN
       /\ fs' = (fs \ pages) \cup {[f EXCEPT !.data = Fixed(f.data)] : f \in pages}
       /\ resources_to_dl' =
            UNION {rewrite_soup(soup, f.path, html_rewrite_dir).resources : f \in pages}
  /\ pc' = "ready"
  /\ UNCHANGED <<stage, run, toc, content_toc, made, downloads, indexVars, renderVars,
                 soupVars, packVars>>

\* stage 2: a page raises with some of the pages written back, main ends
MainRewriteAborts ==
  /\ pc = "copied"
  /\ stage = 2
  /\ LET pages == {f \in Under(fs, html_rewrite_dir) : IsHtml(f)} IN
     \E written \in SUBSET pages :
       /\ written # pages
       /\ fs' = (fs \ written) \cup {[f EXCEPT !.data = Fixed(f.data)] : f \in written}
  /\ pc' = "aborted"
  /\ UNCHANGED <<stage, run, toc, content_toc, resources_to_dl, made, downloads,
                 indexVars, renderVars, soupVars, packVars>>

\* stage 3: download_additional_resources returns
MainEnrich ==
  /\ pc = "copied"
  /\ stage = 3
  /\ \E order \in Orders(resources_to_dl), index_soup \in MainSoups :
       LET writes == EnrichWrites(order, index_soup, additional_resources_dir) IN
       /\ fs' = WriteFirst(fs, writes, Len(writes))
       /\ made' = made \cup {Rel(Normpath(writes[i].path), additional_resources_dir) :
                               i \in 1..Len(writes)}
  /\ pc' = "ready"
  /\ UNCHANGED <<stage, run, toc, content_toc, resources_to_dl, downloads, indexVars,
                 renderVars, soupVars, packVars>>

\* stage 3: a download, get_url_page or rewrite_index_soup raises after n
\* files are written, main ends
MainEnrichAborts ==
  /\ pc = "copied"
  /\ stage = 3
  /\ \E order \in Orders(resources_to_dl), index_soup \in MainSoups :
       LET writes == EnrichWrites(order, index_soup, additional_resources_dir) IN
       \E n \in 0..(Len(writes) - 1) :
         /\ fs' = WriteFirst(fs, writes, n)
         /\ made' = made \cup {Rel(Normpath(writes[i].path), additional_resources_dir) :
                                 i \in 1..n}
  /\ pc' = "aborted"
  /\ UNCHANGED <<stage, run, toc, content_toc, resources_to_dl, downloads, indexVars,
                 renderVars, soupVars, packVars>>

\* stage 4: create_sqlite_database commits the index of content_toc
MainIndex ==
  /\ pc = "copied"
  /\ stage = 4
  /\ fs' = WriteFile(fs, sqlite_filepath, [table |-> InsertItems(<<>>, content_toc, 1)])
  /\ pc' = "ready"
  /\ UNCHANGED <<stage, run, toc, content_toc, resources_to_dl, made, downloads,
                 indexVars, renderVars, soupVars, packVars>>

\* stage 4: sqlite raises before the commit, main ends: the index of an
\* earlier run is removed, the new one is not there or is empty
MainIndexAborts ==
  /\ pc = "copied"
  /\ stage = 4
  /\ \/ fs' = {f \in fs : f.path # sqlite_filepath}
     \/ fs' = WriteFile(fs, sqlite_filepath, [table |-> <<>>])
  /\ pc' = "aborted"
  /\ UNCHANGED <<stage, run, toc, content_toc, resources_to_dl, made, downloads,
                 indexVars, renderVars, soupVars, packVars>>

\* stage 5: the four static files are copied
MainStatic ==
  /\ pc = "ready"
  /\ stage = 4
  /\ stage' = 5
  /\ fs' = WriteFirst(fs, StaticWrites, Len(StaticWrites))
  /\ pc' = "static"
  /\ UNCHANGED <<run, toc, content_toc, resources_to_dl, made, downloads, indexVars,
                 renderVars, soupVars, packVars>>

\* stage 5: a shutil.copy raises after n files are copied, main ends
MainStaticAborts ==
  /\ pc = "ready"
  /\ stage = 4
  /\ stage' = 5
  /\ \E n \in 0..(Len(StaticWrites) - 1) : fs' = WriteFirst(fs, StaticWrites, n)
  /\ pc' = "aborted"
  /\ UNCHANGED <<run, toc, content_toc, resources_to_dl, made, downloads, indexVars,
                 renderVars, soupVars, packVars>>

\* stage 5: make_docset returns, main returns
MainPackage ==
  /\ pc = "static"
  /\ fs' = make_docset(fs, docset_dir, version_output_dir, "Powershell")
  /\ pc' = "done"
  /\ UNCHANGED <<stage, run, toc, content_toc, resources_to_dl, made, downloads,
                 indexVars, renderVars, soupVars, packVars>>

\* the program is run again, with the same output folder
MainAgain ==
  /\ pc \in {"done", "aborted"}
  /\ run < MaxRuns
  /\ run' = run + 1
  /\ pc' = "main"
  /\ stage' = 0
  /\ toc' = <<>>
  /\ content_toc' = <<>>
  /\ resources_to_dl' = {}
  /\ made' = {}
  /\ UNCHANGED <<fs, downloads, indexVars, renderVars, soupVars, packVars>>

-----------------------------------------------------------------------------
(* The rewrite of the start page: rewrite_index_soup                        *)
(*                                                                         *)
(* The start page is the rendered page: it has the table of the modules.   *)
(* Its scripts are the script elements of its head and of its body, in     *)
(* document order.                                                         *)

MaxScripts == 2

\* [\w\.\/] matches the token
IsIndexPathToken(tok) == IsWord(tok) \/ tok \in {".", "/"}

rstrip_slash(ts) ==
  LET keep == {n \in 0..Len(ts) : \A j \in (n + 1)..Len(ts) : ts[j] = "/"}
  IN SubSeq(ts, 1, CHOOSE n \in keep : \A m \in keep : n <= m)

\* link_pattern.findall(href) of line 312: its first target, if there is one
index_link_targets(href) ==
  LET ends == {k \in 2..Len(href) :
                 /\ k + 4 <= Len(href)
                 /\ SubSeq(href, k, k + 4) = ViewQuery
                 /\ IsIndexPathToken(href[k - 1])}
      k == CHOOSE e \in ends : \A e2 \in ends : e <= e2
      starts == {i \in 1..(k - 1) : \A j \in i..(k - 1) : IsIndexPathToken(href[j])}
      s == CHOOSE i \in starts : \A i2 \in starts : i <= i2
  IN IF ends = {} THEN <<>> ELSE <<SubSeq(href, s, k - 1)>>

\* the body of the loop of lines 314-331 for a link of the table
FixIndexLink(link) ==
  LET targets == index_link_targets(link.href) IN
  IF targets = <<>> THEN link
  ELSE LET url_path == rstrip_slash(lstrip_slash(targets[1]))
       IN [link EXCEPT !.href = url_path \o <<"/">> \o link.title \o <<".", "html">>]

\* the nav_elements of lines 340-351 the start page of the model holds
index_nav_elements ==
  nav_elements \cup {[tag |-> "div", class |-> "header", role |-> ""]}

\* tag.extract(): the element leaves the document, if it is in it
Extract(soup, script) ==
  LET Others(s) == s # script
  IN [soup EXCEPT !.head_scripts = SelectSeq(@, Others),
                  !.body_scripts = SelectSeq(@, Others)]

\* soup.head.findAll("script") and
\* soup.body.findAll("script", { "async" : "", "defer" : ""})
IsAsyncDefer(script) == script.async /\ script.defer

\* the loop of lines 360-361 from script i of the head on; st is the
\* document and head_script, the variable of the loop
RECURSIVE ExtractHeadScripts(_, _, _)
ExtractHeadScripts(st, found, i) ==
  IF i > Len(found) THEN st
  ELSE ExtractHeadScripts([soup |-> Extract(st.soup, found[i]), head_script |-> <<found[i]>>],
                          found, i + 1)

\* the loop of lines 362-363 from script i of the body on: it extracts
\* head_script, which is not bound when the first loop had no element
RECURSIVE ExtractBodyScripts(_, _, _)
ExtractBodyScripts(st, found, i) ==
  IF i > Len(found) THEN [soup |-> st.soup, raised |-> FALSE]
  ELSE IF st.head_script = <<>> THEN [soup |-> st.soup, raised |-> TRUE]
       ELSE ExtractBodyScripts([st EXCEPT !.soup = Extract(st.soup, st.head_script[1])],
                               found, i + 1)

\* lines 359-363
remove_script_elems(soup) ==
  ExtractBodyScripts(
    ExtractHeadScripts([soup |-> soup, head_script |-> <<>>], soup.head_scripts, 1),
    SelectSeq(soup.body_scripts, IsAsyncDefer), 1)

\* rewrite_index_soup: the document as it leaves it, the stylesheets it has
\* downloaded, and whether it raised
rewrite_index_soup(soup, index_html_path, documents_dir) ==
  LET module_svg_path == icon_module_path(documents_dir)
      linked == [soup EXCEPT
                   !.links = [i \in 1..Len(@) |-> FixIndexLink(@[i])],
                   !.images = [i \in 1..Len(@) |->
                                 [@[i] EXCEPT !.src = Relpath(module_svg_path,
                                                              Dirname(index_html_path))]],
                   !.body = @ \ index_nav_elements]
      scripts == remove_script_elems(linked)
      sheets == scripts.soup.sheets
      theme == {i \in 1..Len(sheets) : IsThemeSheet(sheets[i])}
      sheet(i) == ExtractSheet(sheets[i], index_html_path, documents_dir)
  IN IF scripts.raised
     THEN [soup |-> scripts.soup, downloaded |-> {}, raised |-> TRUE]
     ELSE [soup |-> [scripts.soup EXCEPT
                       !.sheets = [i \in 1..Len(sheets) |->
                                     IF i \in theme THEN sheet(i).link ELSE sheets[i]]],
           downloaded |-> {sheet(i).record : i \in theme},
           raised |-> FALSE]

\* the start pages rewrite_index_soup is called with
IndexLink(href, title) == [href |-> href, title |-> title]

IndexLinks ==
  {IndexLink(<<".", "/", "Microsoft", ".", "PowerShell", ".", "Core", "/",
               "?", "view", "=", "powershell", "-", "6">>,
             <<"Microsoft", ".", "PowerShell", ".", "Core">>),
   IndexLink(<<"/", "powershell", "/", "module", "/", "CimCmdlets",
               "?", "view", "=", "powershell", "-", "6">>, <<"CimCmdlets">>),
   IndexLink(<<"https", ":", "/", "/", "aka", ".", "ms", "/", "pshelp">>, <<"Help">>)}

HeadScript(id) == [id |-> id, async |-> FALSE, defer |-> FALSE]

ScriptKinds == {<<TRUE, TRUE>>, <<TRUE, FALSE>>, <<FALSE, FALSE>>}

\* n scripts of the head, and up to n scripts of the body of any kind
HeadScripts(n) == [i \in 1..n |-> HeadScript(<<"head", i>>)]

BodyScripts(n) ==
  UNION {{[i \in 1..k |-> [id |-> <<"body", i>>, async |-> kinds[i][1],
                           defer |-> kinds[i][2]]] : kinds \in [1..k -> ScriptKinds]} :
         k \in 0..n}

IndexSoups ==
  {[links |-> l, images |-> im, body |-> SitePage \cup index_nav_elements,
    head_scripts |-> HeadScripts(h), body_scripts |-> b, sheets |-> sh] :
     l \in SeqsUpTo(IndexLinks, 1),
     im \in {<<>>, <<[alt |-> "Module", src |-> <<Dir("media"), Seg("module", ".svg")>>]>>},
     h \in 0..MaxScripts,
     b \in BodyScripts(MaxScripts),
     sh \in {<<>>, <<[href |-> MainCss]>>}}

\* one call of rewrite_index_soup (line 429), on the start page of stage 3
RewriteIndexSoup ==
  /\ pc = "index soup"
  /\ \E soup \in IndexSoups :
       LET index_html_path == index_filepath(additional_resources_dir)
           r == rewrite_index_soup(soup, index_html_path, additional_resources_dir)
       IN /\ soup_in' = soup
          /\ html_file' = index_html_path
          /\ soup_out' = r.soup
          /\ resources' = r.downloaded
          /\ pc' = IF r.raised THEN "index soup raised" ELSE "index soup rewritten"
  /\ UNCHANGED restOfRewrite

-----------------------------------------------------------------------------
(* Specifications                                                           *)

CrawlFresh ==
  /\ toc = <<>>
  /\ content_toc = <<>>
  /\ fs = {}
  /\ downloads = <<>>

IndexFresh ==
  /\ dsidx = NoFile
  /\ item = 0
  /\ rows = <<>>
  /\ attempts = <<>>
  /\ built = <<>>

\* PoshWebDriver.__init__ has opened a first session
RenderFresh ==
  /\ session = [id |-> 1, open |-> TRUE]
  /\ index_html = None
  /\ events = <<>>
  /\ calls = 0

SoupFresh ==
  /\ html_file = <<>>
  /\ soup_in = NoSoup
  /\ soup_out = NoSoup
  /\ resources = {}

MainFresh ==
  /\ stage = 0
  /\ run = 1
  /\ resources_to_dl = {}
  /\ made = {}
  /\ docset_args = NoArgs

\* the crawl of a TOC, then the index of the ContentTOC it returns
BuildInit ==
  /\ pc = "crawl"
  /\ CrawlFresh
  /\ IndexFresh
  /\ RenderFresh
  /\ SoupFresh
  /\ MainFresh

BuildNext == CrawlModule \/ CrawlReturn \/ IndexOpen \/ IndexModule \/ IndexCommit

SpecBuild == BuildInit /\ [][BuildNext]_vars

\* calls of get_url_page on one PoshWebDriver
RenderInit ==
  /\ pc = "render"
  /\ CrawlFresh
  /\ IndexFresh
  /\ RenderFresh
  /\ SoupFresh
  /\ MainFresh

RenderNext ==
  \/ RenderCall
  \/ RenderFirstLoads
  \/ RenderFirstTransient
  \/ RenderFirstRaises
  \/ RenderQuit
  \/ RenderSleep
  \/ RenderNewSession
  \/ RenderNewSessionRaises
  \/ RenderCheck
  \/ RenderSecondLoads
  \/ RenderSecondRaises

SpecRender == RenderInit /\ [][RenderNext]_vars

\* calls of rewrite_soup
RewriteInit ==
  /\ pc = "rewrite"
  /\ CrawlFresh
  /\ IndexFresh
  /\ RenderFresh
  /\ SoupFresh
  /\ MainFresh

RewriteNext == RewriteSoup

SpecRewrite == RewriteInit /\ [][RewriteNext]_vars

\* runs of main, one after the other, on an output folder that is empty at
\* the first
MainInit ==
  /\ pc = "main"
  /\ CrawlFresh
  /\ IndexFresh
  /\ RenderFresh
  /\ SoupFresh
  /\ MainFresh

MainNext ==
  \/ MainCrawl
  \/ MainCrawlAborts
  \/ MainCopy
  \/ MainCopyAborts
  \/ MainRewrite
  \/ MainRewriteAborts
  \/ MainEnrich
  \/ MainEnrichAborts
  \/ MainIndex
  \/ MainIndexAborts
  \/ MainStatic
  \/ MainStaticAborts
  \/ MainPackage
  \/ MainAgain

SpecMain == MainInit /\ [][MainNext]_vars

\* the TOCs whose ContentTOC is indexed again and again, and the TOCs an
\* earlier build has left a docSet.dsidx of
ReindexChildren == {<<"Get-Item">>, <<"Core", "Get-Item">>, <<"About", "about_If">>}

ReindexTocs ==
  {<<TocModule(m, c)>> : m \in ModuleTitles, c \in ReindexChildren}
    \cup {<<TocModule(m[1], c1), TocModule(m[2], c2)>> :
            m \in {<<"Core", "Utility">>, <<"Utility", "Core">>},
            c1 \in ReindexChildren, c2 \in ReindexChildren}

EarlierTocs ==
  {<<TocModule("Utility", <<"Get-Item">>)>>,
   <<TocModule("Utility", <<"about_If">>)>>,
   <<TocModule("Core", <<"About">>), TocModule("Utility", <<"Core">>)>>}

\* create_sqlite_database, called over and over on the ContentTOC of a crawl,
\* the first time with the docSet.dsidx of an earlier build on disk
ReindexInit ==
  /\ pc = "crawled"
  /\ \E modules \in ReindexTocs, earlier \in EarlierTocs :
       LET r == crawl_posh_contents({}, modules) IN
       /\ toc = modules
       /\ fs = r.files
       /\ downloads = r.log
       /\ content_toc = r.content_toc
       /\ dsidx = InsertItems(<<>>, crawl_posh_contents({}, earlier).content_toc, 1)
  /\ item = 0
  /\ rows = <<>>
  /\ attempts = <<>>
  /\ built = <<>>
  /\ RenderFresh
  /\ SoupFresh
  /\ MainFresh

ReindexNext == IndexOpen \/ IndexModule \/ IndexCommit \/ IndexAgain

SpecReindex == ReindexInit /\ [][ReindexNext]_vars

\* a call of make_docset: the directory of a docset, a destination (the
\* directory of the versions, or the directory the docset is built in) and a
\* name; the destination may hold what an earlier call has left
PackageSources == {docset_dir, PathJoin(package_dir, <<Seg("Other", ".docset")>>)}
PackageDsts == {version_output_dir, package_dir}
PackageNames == {"Powershell", "posh"}

DocsetFiles ==
  {<<Dir("Contents"), Seg("Info", ".plist")>>,
   <<Dir("Contents"), Dir("Resources"), Seg("docSet", ".dsidx")>>,
   <<Seg("icon", ".png")>>}

Leftovers(dst_dir, filename) ==
  {[path |-> tar_filepath_of(dst_dir, filename), data |-> [members |-> {}]],
   [path |-> targz_filepath_of(dst_dir, filename), data |-> [members |-> {}]],
   [path |-> docset_filepath_of(dst_dir, filename), data |-> [members |-> {}]]}

PackageInit ==
  /\ pc = "tar"
  /\ \E source_dir \in PackageSources, dst_dir \in PackageDsts, filename \in PackageNames :
       \E tree \in SUBSET DocsetFiles, left \in SUBSET Leftovers(dst_dir, filename) :
         /\ tree # {}
         /\ docset_args = [source_dir |-> source_dir, dst_dir |-> dst_dir,
                           filename |-> filename]
         /\ fs = {[path |-> source_dir \o t, data |-> [from |-> "build"]] : t \in tree}
                  \cup left
         /\ \A f \in fs : ~IsDir(fs, f.path)
  /\ toc = <<>>
  /\ content_toc = <<>>
  /\ downloads = <<>>
  /\ IndexFresh
  /\ RenderFresh
  /\ SoupFresh
  /\ stage = 0
  /\ run = 1
  /\ resources_to_dl = {}
  /\ made = {}

PackageNext == PackageTar \/ PackageMoveTar \/ PackageMoveTarGz

SpecPackage == PackageInit /\ [][PackageNext]_vars

\* calls of rewrite_index_soup
IndexSoupInit ==
  /\ pc = "index soup"
  /\ CrawlFresh
  /\ IndexFresh
  /\ RenderFresh
  /\ SoupFresh
  /\ MainFresh

IndexSoupNext == RewriteIndexSoup

SpecIndexSoup == IndexSoupInit /\ [][IndexSoupNext]_vars

\* calls of insert_into_sqlite_db on a fresh index, with any candidates
MaxInserts == 3

IndexNames == {"Get-Item", "Get-Help"}
IndexTypes == {"Module", "Cmdlet"}
IndexPaths == {"a.html", "b.html", "c.html"}

InsertInit ==
  /\ pc = "insert"
  /\ CrawlFresh
  /\ RenderFresh
  /\ SoupFresh
  /\ MainFresh
  /\ dsidx = <<>>
  /\ item = 0
  /\ rows = <<>>
  /\ attempts = <<>>
  /\ built = <<>>

InsertCall ==
  /\ pc = "insert"
  /\ Len(attempts) < MaxInserts
  /\ \E name \in IndexNames, record_type \in IndexTypes, path \in IndexPaths,
        raises \in BOOLEAN :
       /\ rows' = insert_into_sqlite_db(rows, name, record_type, path, raises)
       /\ attempts' = Append(attempts, Attempt(name, record_type, path, <<0, 0>>))
  /\ UNCHANGED <<pc, dsidx, item, built, crawlVars, restOfBuild>>

InsertNext == InsertCall

SpecInsert == InsertInit /\ [][InsertNext]_vars

-----------------------------------------------------------------------------
(* Claims                                                                   *)

NoSharedNameOrPath(table) ==
  \A i, j \in 1..Len(table) :
     i # j => table[i].path # table[j].path /\ table[i].name # table[j].name

Collides(table, cand) ==
  \E i \in 1..Len(table) : table[i].name = cand.name \/ table[i].path = cand.path

\* C1: after any sequence of inserts on a fresh index no two rows share a
\* path and no two rows share a name; a candidate whose name or path is
\* already in a row is dropped, and no insert changes or removes an earlier row.
C1_IndexUnique ==
  /\ [](NoSharedNameOrPath(rows))
  /\ [][ /\ Len(rows') >= Len(rows)
         /\ SubSeq(rows', 1, Len(rows)) = rows
         /\ (Len(attempts') > Len(attempts) /\ Collides(rows, attempts'[Len(attempts')])
               => rows' = rows) ]_vars

\* the spec's example: (Get-Item, Cmdlet, a.html) then (Get-Item, Cmdlet, b.html)
C1_Witness ==
  /\ pc = "insert"
  /\ Len(attempts) = 2
  /\ attempts[1] = Attempt("Get-Item", "Cmdlet", "a.html", <<0, 0>>)
  /\ attempts[2] = Attempt("Get-Item", "Cmdlet", "b.html", <<0, 0>>)
  /\ rows = <<Row("Get-Item", "Cmdlet", "a.html")>>

\* two strings that differ at most in the case of their letters
EqualsIgnoringCase(cs, ds) ==
  /\ Len(cs) = Len(ds)
  /\ \A i \in 1..Len(cs) :
        \/ cs[i] = ds[i]
        \/ \E j \in 1..Len(UpperLetters) :
              {cs[i], ds[i]} = {UpperLetters[j], LowerLetters[j]}

IsReservedTitle(title) ==
  \E l \in {"about", "functions", "providers", "provider"} :
     EqualsIgnoringCase(Chars(title), Chars(l))

\* the positions of a sequence that satisfy Test, in order
Positions(seq, Test(_)) ==
  LET RECURSIVE From(_)
      From(k) == IF k > Len(seq) THEN <<>>
                 ELSE IF Test(seq[k]) THEN <<k>> \o From(k + 1) ELSE From(k + 1)
  IN From(1)

\* the downloads of the command pages of module mi, in the order they were made
CmdletDownloads(mi) ==
  LET IsOfModule(d) == d.module = mi /\ d.child > 0
      at == Positions(downloads, IsOfModule)
  IN [n \in 1..Len(at) |-> downloads[at[n]].child]

IsLastOfItsTitle(mi) ==
  \A mj \in (mi + 1)..Len(toc) : toc[mj].toc_title # toc[mi].toc_title

RecordOf(d, key) == d[CHOOSE i \in 1..Len(d) : d[i][1] = key][2]

\* C2: a child entry whose title is a reserved label, whatever its case, gets
\* no download and no CommandRecord; the other child entries of the module get
\* exactly one download and one CommandRecord each, in TOC order.
C2_ReservedSkipped ==
  \A mi \in 1..Len(toc) :
     LET children == toc[mi].children
         NotReserved(e) == ~IsReservedTitle(e.toc_title)
         kept == Positions(children, NotReserved)
     IN /\ CmdletDownloads(mi) = kept
        /\ IsLastOfItsTitle(mi) =>
             LET cmdlets == RecordOf(content_toc, toc[mi].toc_title).cmdlets
             IN /\ Len(cmdlets) = Len(kept)
                /\ \A n \in 1..Len(kept) :
                      cmdlets[n].name = children[kept[n]].toc_title
                /\ \A n \in 1..Len(cmdlets) : ~IsReservedTitle(cmdlets[n].name)

C2_Witness ==
  /\ pc = "crawled"
  /\ Len(toc) = 1
  /\ [k \in 1..Len(toc[1].children) |-> toc[1].children[k].toc_title]
       = <<"Get-Item", "About", "about_If">>
  /\ Len(content_toc[1][2].cmdlets) = 2
  /\ Len(downloads) = 3

\* C3: for a command of the ContentTOC named like its module no call of
\* insert_into_sqlite_db is made, and the index holds no Cmdlet row of it.
C3_ModuleNamedCommandSkipped ==
  pc \in {"index", "indexed"} =>
    \A i \in 1..Len(content_toc) :
       LET cmdlets == content_toc[i][2].cmdlets IN
       \A k \in 1..Len(cmdlets) :
          cmdlets[k].name = content_toc[i][1] =>
            /\ \A a \in 1..Len(attempts) : attempts[a].origin # <<i, k>>
            /\ \A r \in 1..Len(rows) :
                  rows[r] # Row(cmdlets[k].name, "Cmdlet", cmdlets[k].path)

C3_Witness ==
  /\ pc = "indexed"
  /\ Len(content_toc) = 1
  /\ content_toc[1][1] = "Core"
  /\ Len(content_toc[1][2].cmdlets) = 2
  /\ content_toc[1][2].cmdlets[1].name = "Core"
  /\ content_toc[1][2].cmdlets[2].name = "Get-Item"
  /\ Len(dsidx) = 2
  /\ dsidx[1].type = "Module"
  /\ dsidx[2].name = "Get-Item"

RecordedPaths ==
  UNION {{content_toc[i][2].index}
           \cup {content_toc[i][2].cmdlets[k].path :
                   k \in 1..Len(content_toc[i][2].cmdlets)} :
         i \in 1..Len(content_toc)}

PageFile(module_name, name) ==
  download_dir \o base_url \o <<Dir(module_name), Seg(name, ".html")>>

\* C5: when crawl_posh_contents has returned, every index path and every
\* command path of the ContentTOC is a relative path, and resolved against the
\* staging root it names the page of that record, a file that exists under
\* the staging root.
C5_RecordedPathsExist ==
  pc = "crawled" =>
    /\ \A p \in RecordedPaths :
          /\ ~IsAbs(p)
          /\ Exists(fs, Resolve(download_dir, p))
          /\ IsUnder(Resolve(download_dir, p), download_dir)
    /\ \A i \in 1..Len(content_toc) :
          LET key == content_toc[i][1]
              module == content_toc[i][2]
          IN /\ Resolve(download_dir, module.index) = PageFile(key, key)
             /\ \A k \in 1..Len(module.cmdlets) :
                   Resolve(download_dir, module.cmdlets[k].path)
                     = PageFile(key, module.cmdlets[k].name)

C5_Witness ==
  /\ pc = "crawled"
  /\ Len(content_toc) = 2
  /\ Len(content_toc[1][2].cmdlets) = 1
  /\ Len(content_toc[2][2].cmdlets) = 2
  /\ Cardinality(fs) = 5

\* the <<name, path>> pairs the ContentTOC records
RecordedNamePaths ==
  UNION {{<<content_toc[i][1], content_toc[i][2].index>>}
           \cup {<<content_toc[i][2].cmdlets[k].name, content_toc[i][2].cmdlets[k].path>> :
                   k \in 1..Len(content_toc[i][2].cmdlets)} :
         i \in 1..Len(content_toc)}

Loads ==
  LET IsGet(e) == e.op = "get"
      at == Positions(events, IsGet)
  IN [n \in 1..Len(at) |-> at[n]]

Loaded(e) == e.result.kind = "page"

FailedTransiently(e) ==
  e.result.kind = "raised" /\ e.result.value \in {"ConnectionResetError", "URLError"}

\* C4: a call of get_url_page loads the page at most twice; it loads it a
\* second time only after the first load failed with a transient connection
\* failure and the session was then discarded, a pause taken and a new session
\* acquired; a failure of the second load leaves the call as an exception; the
\* page of a first load that succeeded is returned, without a second load.
C4_RetryOnlyAfterTransientFailure ==
  LET loads == Loads IN
  /\ Len(loads) <= 2
  /\ Len(loads) = 2 =>
       /\ loads[1] = 1
       /\ FailedTransiently(events[1])
       /\ loads[2] = 5
       /\ events[2].op = "quit" /\ events[3].op = "sleep"
       /\ events[4].op = "new" /\ events[4].result = Passed
       /\ events[5].session # events[1].session
       /\ ~Loaded(events[5]) => pc = "raised"
  /\ Len(loads) >= 1 /\ Loaded(events[loads[1]]) =>
       /\ Len(loads) = 1
       /\ pc = "returned" => index_html = Str(events[loads[1]].result.value)

\* what the code does keep: at most two loads, and a second load only when the
\* first failed transiently and the session was renewed, or gave an empty page
RenderAtMostTwoLoads ==
  LET loads == Loads IN
  /\ Len(loads) <= 2
  /\ Len(loads) = 2 =>
       \/ events[1].result = GavePage("") /\ loads[2] = 2
       \/ /\ FailedTransiently(events[1])
          /\ loads[2] = 5
          /\ events[5].session # events[1].session

\* a word, a hyphen and a word right before ?view=powershell-
HasTokenAt(href, i) ==
  /\ i >= 1 /\ i + 7 <= Len(href)
  /\ href[i] \notin Punctuation /\ href[i + 1] = "-" /\ href[i + 2] \notin Punctuation
  /\ SubSeq(href, i + 3, i + 7) = <<"?", "view", "=", "powershell", "-">>

DotHtml == <<".", "html">>

\* C6: rewrite_soup sets the href of an anchor flagged relative-path by one
\* of three rules: the sentinel ./?view=powershell-<version> becomes
\* ./<text>.html; otherwise an href with a word-word token right before
\* ?view=powershell- becomes <token>.html; otherwise it is left as it is.  An
\* anchor that is not flagged keeps its href.
C6_LinkRewriteRules ==
  /\ Len(soup_out.anchors) = Len(soup_in.anchors)
  /\ \A i \in 1..Len(soup_in.anchors) :
        LET before == soup_in.anchors[i]
            after == soup_out.anchors[i]
            href == before.href
            sentinel == <<".", "/", "?", "view", "=", "powershell", "-", "6">>
        IN /\ after.text = before.text /\ after.linktype = before.linktype
           /\ before.linktype # "relative-path" => after.href = href
           /\ before.linktype = "relative-path" =>
                IF href = sentinel
                THEN after.href = <<".", "/">> \o before.text \o DotHtml
                ELSE IF \E k \in 1..Len(href) : HasTokenAt(href, k)
                     THEN \E k \in 1..Len(href) :
                             /\ HasTokenAt(href, k)
                             /\ after.href = SubSeq(href, k, k + 2) \o DotHtml
                     ELSE after.href = href
           /\ (before.linktype = "relative-path"
                 /\ href = <<"Get", "-", "Process", "?", "view", "=", "powershell", "-", "6">>)
                => after.href = <<"Get", "-", "Process", ".", "html">>
           /\ (before.linktype = "relative-path" /\ href = sentinel
                 /\ before.text = <<"Get", "-", "Help">>)
                => after.href = <<".", "/", "Get", "-", "Help", ".", "html">>

C6_Witness ==
  /\ pc = "rewritten"
  /\ Len(soup_in.anchors) = 2
  /\ soup_in.anchors[1] =
       Anchor("relative-path", <<".", "/", "?", "view", "=", "powershell", "-", "6">>,
              <<"Get", "-", "Help">>)
  /\ soup_in.anchors[2] =
       Anchor("relative-path",
              <<"Get", "-", "Process", "?", "view", "=", "powershell", "-", "6">>,
              <<"Get", "-", "Process">>)
  /\ soup_out.anchors[1].href = <<".", "/", "Get", "-", "Help", ".", "html">>
  /\ soup_out.anchors[2].href = <<"Get", "-", "Process", ".", "html">>

\* the href of a stylesheet link without the blanks around it
Trimmed(href) ==
  LET first == CHOOSE i \in 1..Len(href) : href[i] # " " /\ \A j \in 1..(i - 1) : href[j] = " "
      last == CHOOSE i \in 1..Len(href) : href[i] # " " /\ \A j \in (i + 1)..Len(href) : href[j] = " "
  IN SubSeq(href, first, last)

WithoutLeadingSlash(href) == IF Head(href) = "/" THEN Tail(href) ELSE href

ThemePrefix ==
  <<"_themes", "/", "docs.theme", "/", "master", "/", "en-us", "/", "_themes">>

MatchesThemePrefix(href) ==
  LET h == WithoutLeadingSlash(Trimmed(href))
  IN Len(h) >= Len(ThemePrefix) /\ SubSeq(h, 1, Len(ThemePrefix)) = ThemePrefix

ThemeUrl(href) ==
  <<"https:", "/", "/", "docs.microsoft.com", "/">> \o WithoutLeadingSlash(Trimmed(href))

\* C7: a head stylesheet link whose href, without its leading slash, starts
\* with the theme prefix gives a ThemeResourceRecord with the url
\* https://docs.microsoft.com/ followed by the href without its leading slash
\* and with a path relative to the staging root; another stylesheet link
\* gives no record and keeps its href.
C7_ThemeResourceUrl ==
  /\ Len(soup_out.sheets) = Len(soup_in.sheets)
  /\ \A i \in 1..Len(soup_in.sheets) :
        LET href == soup_in.sheets[i].href IN
        IF MatchesThemePrefix(href)
        THEN \E rec \in resources : rec.url = ThemeUrl(href) /\ ~IsAbs(rec.path)
        ELSE soup_out.sheets[i].href = href
  /\ \A rec \in resources :
        \E i \in 1..Len(soup_in.sheets) :
           /\ MatchesThemePrefix(soup_in.sheets[i].href)
           /\ rec.url = ThemeUrl(soup_in.sheets[i].href)

\* the files below a directory, named from that directory on
Tree(files, dir) ==
  {[path |-> SubSeq(f.path, Len(dir) + 1, Len(f.path)), data |-> f.data] :
     f \in {g \in files : Len(g.path) > Len(dir) /\ SubSeq(g.path, 1, Len(dir)) = dir}}

\* the files a step creates, modifies or deletes
Changed(before, after) == (before \ after) \cup (after \ before)

Below(f, dir) == Len(f.path) > Len(dir) /\ SubSeq(f.path, 1, Len(dir)) = dir

BuildDir(name) == <<Root, Dir("out"), Dir("_build_6"), Dir(name)>>

\* the output directory of a stage: the four stage directories, and the
\* directory of the archive
OutputDir(k) ==
  CASE k = 1 -> BuildDir("_1_downloaded_contents")
    [] k = 2 -> BuildDir("_2_html_rewrite")
    [] k = 3 -> BuildDir("_3_additional_resources")
    [] k = 4 -> BuildDir("_4_ready_to_be_packaged")
    [] k = 5 -> <<Root, Dir("out"), Dir("versions"), Dir("6")>>

DocumentsIn(dir) ==
  dir \o <<Seg("Powershell", ".docset"), Dir("Contents"), Dir("Resources"), Dir("Documents")>>

StagesInOrder ==
  /\ stage' # stage => (stage' = stage + 1 \/ (stage' = 0 /\ run' = run + 1))
  /\ stage' \in 0..5

\* C8 as stated: the stages run in order, and a stage from the second on
\* starts by making its output directory a copy of the output directory of the
\* stage before and then changes files of its own output directory only, so
\* that it changes no file of the output directory of an earlier stage.
C8_StagesKeepToTheirDirectory ==
  [][/\ StagesInOrder
     /\ \A k \in 2..5 :
          /\ (stage = k - 1 /\ stage' = k /\ pc' # "aborted")
               => Tree(fs', OutputDir(k)) = Tree(fs, OutputDir(k - 1))
          /\ stage' = k
               => /\ \A j \in 1..(k - 1) :
                       Tree(fs', OutputDir(j)) = Tree(fs, OutputDir(j))
                  /\ \A f \in Changed(fs, fs') : Below(f, OutputDir(k))]_vars

\* C8 as amended: the stages run in order; stages 2 and 3 start by making
\* their directory a copy of the directory of the stage before, stage 4 by
\* making the Documents directory inside its directory such a copy, and stage
\* 5 copies no directory: it keeps the Documents of stage 4 as they are.  A
\* step of stage 2, 3 or 4 changes files of the stage's own directory only, a
\* step of stage 5 files of the directory of stage 4 and of the directory of
\* the archive only: no stage changes a file of the directories of stages 1
\* to 3 once their stage is over.
C8_StagesLeaveEarlierCheckpoints ==
  [][/\ StagesInOrder
     /\ \A k \in 2..3 :
          (stage = k - 1 /\ stage' = k /\ pc' # "aborted")
            => Tree(fs', OutputDir(k)) = Tree(fs, OutputDir(k - 1))
     /\ (stage = 3 /\ stage' = 4 /\ pc' # "aborted")
          => Tree(fs', DocumentsIn(OutputDir(4))) = Tree(fs, OutputDir(3))
     /\ (stage = 4 /\ stage' = 5)
          => Tree(fs', DocumentsIn(OutputDir(4))) = Tree(fs, DocumentsIn(OutputDir(4)))
     /\ \A k \in 2..4 :
          stage' = k => \A f \in Changed(fs, fs') : Below(f, OutputDir(k))
     /\ stage' = 5
          => \A f \in Changed(fs, fs') : Below(f, OutputDir(4)) \/ Below(f, OutputDir(5))
     /\ \A k \in 2..5, j \in 1..3 :
          (stage' = k /\ j < k) => Tree(fs', OutputDir(j)) = Tree(fs, OutputDir(j))]_vars

\* a second run has gone through its five stages, over the directories the
\* first run left
C8_Witness ==
  /\ run = 2
  /\ stage = 5
  /\ pc = "done"
  /\ \A k \in 1..5 : Tree(fs, OutputDir(k)) # {}
  /\ \E f \in fs : f.path = OutputDir(4) \o <<Seg("Powershell", ".docset"), Dir("Contents"),
                                             Seg("Info", ".plist")>>

ArchivePath == OutputDir(5) \o <<Seg("Powershell", ".docset")>>

\* the documents of the archive, named from the Documents directory on
ArchivedDocuments ==
  UNION {{SubSeq(m.path, 5, Len(m.path)) :
            m \in {x \in f.data.members :
                     Len(x.path) > 4 /\ SubSeq(x.path, 1, 4) = DocumentsIn(<<>>)}} :
         f \in {g \in fs : g.path = ArchivePath}}

\* C9: when a run of main is over, every document of its stage directories
\* and of its archive is a file this run has downloaded or generated: no file
\* an earlier run left in the build folder is among them.
C9_ArchiveFromThisRunOnly ==
  (pc = "done") =>
    /\ \A dir \in {OutputDir(2), OutputDir(3), DocumentsIn(OutputDir(4))} :
         \A f \in Tree(fs, dir) : f.path \in made
    /\ \A doc \in ArchivedDocuments : doc \in made

\* the rows of a table, without their rowid
RowSet(table) == {table[r] : r \in 1..Len(table)}

NamedInDst(ext) ==
  {f \in fs : /\ Len(f.path) > Len(docset_args.dst_dir)
              /\ SubSeq(f.path, 1, Len(docset_args.dst_dir)) = docset_args.dst_dir
              /\ f.path[Len(f.path)] = <<docset_args.filename, ext>>}

C13_NoScriptLeft ==
  (pc \in {"index soup rewritten", "index soup raised"}) =>
    /\ pc = "index soup rewritten"
    /\ soup_out.head_scripts = <<>>
    /\ \A i \in 1..Len(soup_out.body_scripts) :
         ~(soup_out.body_scripts[i].async /\ soup_out.body_scripts[i].defer)

\* C14: no two downloads of the crawl are written to the same file: the page
\* of a module and the pages of the commands that are downloaded all have
\* paths of their own, so that no later download replaces an earlier page.
C14_NoDownloadOverwritten ==
  /\ \A i, j \in 1..Len(downloads) :
       i < j => downloads[i].path # downloads[j].path
  /\ Cardinality(fs) = Len(downloads)

=============================================================================
